---------------------------- MODULE Spec2Model ----------------------------
(***************************************************************************)
(* Model of scripts/cloudflare_dns.py: the declarative reconciliation of   *)
(* Cloudflare DNS records against the site list of config.yml.             *)
(*                                                                         *)
(* Python strings are modelled as sequences of one-character strings, so   *)
(* that strip(), lower(), lstrip(), endswith() and the ordering used by    *)
(* sorted() are computed the way the code computes them.                   *)
(***************************************************************************)
EXTENDS Integers, Sequences, FiniteSets, TLC

(***************************************************************************)
(* Bounds of the model.                                                    *)
(***************************************************************************)
MaxNameLen == 5      \* longest fqdn drawn for the zone resolver
MaxZones == 2        \* longest zone list drawn for the zone resolver
MaxRuns == 2         \* consecutive runs of main() against the same provider
MaxPages == 3        \* most pages of a provider that reports their number
MaxOddPages == 2     \* most pages of a provider that reports anything

(***************************************************************************)
(* Strings.                                                                *)
(***************************************************************************)
\* The characters of the model in code-point order (Python compares strings
\* code point by code point).
CharOrder ==
    << "\n", " ", "*", "-", ".", "0", "1", "2", "3", "6", ":", "A", "N", "O",
       "T", "U", "Y", "a", "b", "c", "d", "e", "f", "n", "o", "p", "r", "s",
       "t", "u", "w", "y" >>

Ord(c) == CHOOSE i \in 1..Len(CharOrder) : CharOrder[i] = c

Whitespace == {" ", "\n"}

\* str.lower() on one character.
LowerChar(c) ==
    CASE c = "A" -> "a"
      [] c = "O" -> "o"
      [] c = "T" -> "t"
      [] c = "U" -> "u"
      [] c = "Y" -> "y"
      [] OTHER -> c

Lower(s) == [i \in 1..Len(s) |-> LowerChar(s[i])]

\* Number of leading characters of s that belong to cs.
RECURSIVE LeadIn(_, _)
LeadIn(s, cs) ==
    IF s = << >> \/ Head(s) \notin cs THEN 0 ELSE 1 + LeadIn(Tail(s), cs)

\* Number of trailing characters of s that belong to cs.
RECURSIVE TrailIn(_, _)
TrailIn(s, cs) ==
    IF s = << >> \/ s[Len(s)] \notin cs
    THEN 0
    ELSE 1 + TrailIn(SubSeq(s, 1, Len(s) - 1), cs)

\* str.lstrip(chars): drops every leading character that is in cs.
LStrip(s, cs) == SubSeq(s, LeadIn(s, cs) + 1, Len(s))

\* str.strip(): drops leading and trailing whitespace.
Strip(s) ==
    LET t == LStrip(s, Whitespace)
    IN  SubSeq(t, 1, Len(t) - TrailIn(t, Whitespace))

StartsWith(s, p) == Len(p) <= Len(s) /\ SubSeq(s, 1, Len(p)) = p

EndsWith(s, x) ==
    Len(x) <= Len(s) /\ SubSeq(s, Len(s) - Len(x) + 1, Len(s)) = x

Contains(s, c) == \E i \in 1..Len(s) : s[i] = c

\* s < t in Python's string order.
RECURSIVE StrLess(_, _)
StrLess(s, t) ==
    IF t = << >> THEN FALSE
    ELSE IF s = << >> THEN TRUE
    ELSE IF Head(s) = Head(t) THEN StrLess(Tail(s), Tail(t))
    ELSE Ord(Head(s)) < Ord(Head(t))

\* All strings over alphabet cs of length 0..n.
StringsUpTo(cs, n) == UNION {[1..k -> cs] : k \in 0..n}

\* All sequences over S of length 0..n.
SeqsUpTo(S, n) == UNION {[1..k -> S] : k \in 0..n}

Range(f) == {f[i] : i \in DOMAIN f}

(***************************************************************************)
(* Python values as they come out of YAML / JSON.                          *)
(***************************************************************************)
PyNone == [t |-> "none"]
PyBool(b) == [t |-> "bool", v |-> b]
PyInt(n) == [t |-> "int", v |-> n]
PyStr(s) == [t |-> "str", v |-> s]
PyOther == [t |-> "other"]

\* The words _as_bool accepts as true.
TrueWords ==
    { <<"1">>, <<"t", "r", "u", "e">>, <<"y", "e", "s">>, <<"o", "n">> }

\* _as_bool(value, default)
AsBool(value, default) ==
    CASE value.t = "none" -> default
      [] value.t = "bool" -> value.v
      [] value.t = "int" -> value.v # 0
      [] value.t = "str" -> Lower(Strip(value.v)) \in TrueWords
      [] OTHER -> default

\* _require_str(obj, key_path): [ok |-> FALSE] stands for the ValueError.
RequireStr(obj) ==
    IF obj.t # "str" \/ Strip(obj.v) = << >>
    THEN [ok |-> FALSE]
    ELSE [ok |-> TRUE, v |-> Strip(obj.v)]

FqdnChars ==
    { "-", ".", "0", "1", "2", "3", "6", "A", "N", "O", "T", "U", "Y", "a",
      "b", "c", "d", "e", "f", "n", "o", "p", "r", "s", "t", "u", "w", "y" }

\* _is_fqdn(name)
IsFqdn(name) ==
    LET n == IF StartsWith(name, <<"*", ".">>) THEN SubSeq(name, 3, Len(name))
             ELSE name
    IN  /\ n # << >>
        /\ \A i \in 1..Len(n) : n[i] \in FqdnChars
        /\ Contains(n, ".")


\* str(value) for the values the configuration can hold.
PyToStr(value) ==
    CASE value.t = "str" -> value.v
      [] value.t = "int" -> << <<"0", "1", "2", "3">>[value.v + 1] >>
      [] OTHER -> <<"N", "o", "n", "e">>

\* Python truthiness of a configuration value.
Truthy(value) ==
    CASE value.t = "none" -> FALSE
      [] value.t = "bool" -> value.v
      [] value.t = "int" -> value.v # 0
      [] value.t = "str" -> value.v # << >>
      [] OTHER -> TRUE

(***************************************************************************)
(* IP addresses.  ipaddress.ip_address() is a library call; it is          *)
(* tabulated over the texts the model uses.  canon is str(ip).             *)
(***************************************************************************)
txtPublic4 == <<"1", ".", "1", ".", "1", ".", "1">>
txtPrivate4 == <<"1", "0", ".", "0", ".", "0", ".", "1">>
txtPublic6 == <<"2", "6", "0", "6", ":", ":", "a">>
txtPublic6Upper == <<"2", "6", "0", "6", ":", ":", "A">>
txtLocal6 == <<"f", "c", "0", "0", ":", ":", "1">>
txtGarbage == <<"o", "o", "p", "s">>

IpTable ==
    { [txt |-> txtPublic4, version |-> 4, is_global |-> TRUE, canon |-> txtPublic4],
      [txt |-> txtPrivate4, version |-> 4, is_global |-> FALSE, canon |-> txtPrivate4],
      [txt |-> txtPublic6, version |-> 6, is_global |-> TRUE, canon |-> txtPublic6],
      [txt |-> txtPublic6Upper, version |-> 6, is_global |-> TRUE, canon |-> txtPublic6],
      [txt |-> txtLocal6, version |-> 6, is_global |-> FALSE, canon |-> txtLocal6] }

\* ipaddress.ip_address(txt): [ok |-> FALSE] stands for the ValueError.
IpAddress(txt) ==
    IF \E e \in IpTable : e.txt = txt
    THEN LET e == CHOOSE x \in IpTable : x.txt = txt
         IN  [ok |-> TRUE, version |-> e.version, is_global |-> e.is_global,
              canon |-> e.canon]
    ELSE [ok |-> FALSE]

\* A text is a syntactically valid, global-scope address of the version.
IsGlobalIp(txt, version) ==
    /\ IpAddress(txt).ok
    /\ IpAddress(txt).version = version
    /\ IpAddress(txt).is_global

(***************************************************************************)
(* Public-IP detection.                                                    *)
(***************************************************************************)
\* candidates of _detect_public_ip
Candidates(version) ==
    IF version = 4
    THEN <<"api.ipify.org", "checkip.amazonaws.com", "ifconfig.me/ip">>
    ELSE <<"api64.ipify.org", "ifconfig.me/ip">>

\* _http_get_text on one endpoint's reply: a transport error raises,
\* otherwise the body is returned stripped.
HttpGetText(reply) ==
    IF reply.kind = "error" THEN [ok |-> FALSE]
    ELSE [ok |-> TRUE, v |-> Strip(reply.body)]

\* An iteration that does not check the scope of the address.
ProbeOutcomeAnyScope(reply, version) ==
    LET txt == HttpGetText(reply)
        ip == IpAddress(txt.v)
    IN  IF ~txt.ok THEN [kind |-> "raise"]
        ELSE IF ~ip.ok THEN [kind |-> "raise"]
        ELSE IF ip.version # version THEN [kind |-> "next"]
        ELSE [kind |-> "return", v |-> ip.canon]

\* One iteration of the loop of _detect_public_ip on one endpoint's reply:
\* "return" with the address, "raise" (caught, next endpoint) or "next".
ProbeOutcome(reply, version) ==
    LET txt == HttpGetText(reply)
        ip == IpAddress(txt.v)
    IN  IF ~txt.ok THEN [kind |-> "raise"]
        ELSE IF ~ip.ok THEN [kind |-> "raise"]
        ELSE IF ip.version # version THEN [kind |-> "next"]
        ELSE IF ip.is_global THEN [kind |-> "return", v |-> ip.canon]
        ELSE [kind |-> "next"]

(***************************************************************************)
(* Zone resolver.                                                          *)
(***************************************************************************)
\* The first element of a non-empty sequence of strings with the greatest
\* length: max(matches, key=len).
RECURSIVE MaxByLen(_)
MaxByLen(ms) ==
    IF Len(ms) = 1 THEN ms[1]
    ELSE LET m == MaxByLen(SubSeq(ms, 1, Len(ms) - 1))
         IN  IF Len(ms[Len(ms)]) > Len(m) THEN ms[Len(ms)] ELSE m

\* The condition of the comprehension of _pick_zone_for_fqdn.
ZoneMatches(fqdn, z) == fqdn = z \/ EndsWith(fqdn, <<".">> \o z)

PickFirstMatch(fqdn, zone_names) ==
    LET Hit(z) == ZoneMatches(fqdn, z)
        matches == SelectSeq(zone_names, Hit)
    IN  IF matches = << >> THEN PyNone ELSE PyStr(matches[1])

\* _pick_zone_for_fqdn(fqdn, zone_names)
PickZoneForFqdn(fqdn, zone_names) ==
    LET Hit(z) == ZoneMatches(fqdn, z)
        matches == SelectSeq(zone_names, Hit)
    IN  IF matches = << >> THEN PyNone ELSE PyStr(MaxByLen(matches))


(***************************************************************************)
(* Desired-state builder: build_desired_records, cut at its two network    *)
(* calls (the detection of the IPv4 and of the IPv6 origin).               *)
(***************************************************************************)
typeA == <<"A">>
typeAAAA == <<"A", "A", "A", "A">>
strAuto == <<"a", "u", "t", "o">>

DigitChars == {"0", "1", "2", "3", "6"}

DigitValue(c) ==
    CASE c = "0" -> 0 [] c = "1" -> 1 [] c = "2" -> 2 [] c = "3" -> 3
      [] OTHER -> 6

RECURSIVE DigitsToInt(_)
DigitsToInt(s) ==
    IF s = << >> THEN 0
    ELSE 10 * DigitsToInt(SubSeq(s, 1, Len(s) - 1)) + DigitValue(s[Len(s)])

\* int(value): [ok |-> FALSE] stands for the ValueError / TypeError.
PyToInt(value) ==
    CASE value.t = "int" -> [ok |-> TRUE, v |-> value.v]
      [] value.t = "bool" -> [ok |-> TRUE, v |-> IF value.v THEN 1 ELSE 0]
      [] value.t = "str" ->
           LET s == Strip(value.v)
               neg == s # << >> /\ Head(s) = "-"
               d == IF neg THEN Tail(s) ELSE s
           IN  IF d # << >> /\ \A i \in 1..Len(d) : d[i] \in DigitChars
               THEN [ok |-> TRUE,
                     v |-> IF neg THEN 0 - DigitsToInt(d) ELSE DigitsToInt(d)]
               ELSE [ok |-> FALSE]
      [] OTHER -> [ok |-> FALSE]

\* The dns mapping of a configuration whose head has been accepted.
DnsCfg(cfg) == cfg.cloudflare.dns

\* A head whose enabled flag defaults to true.
BuildHeadDefaultEnabled(cfg) ==
    IF cfg.cloudflare.t # "map" THEN "raise"
    ELSE IF cfg.cloudflare.dns.t = "none" THEN "empty"
    ELSE IF cfg.cloudflare.dns.t # "map" THEN "raise"
    ELSE IF ~AsBool(cfg.cloudflare.dns.enabled, TRUE) THEN "empty"
    ELSE "enabled"

\* Lines 212-225: "raise" (ValueError), "empty" (return []) or "enabled".
BuildHead(cfg) ==
    IF cfg.cloudflare.t # "map" THEN "raise"
    ELSE IF cfg.cloudflare.dns.t = "none" THEN "empty"
    ELSE IF cfg.cloudflare.dns.t # "map" THEN "raise"
    ELSE IF ~AsBool(cfg.cloudflare.dns.enabled, FALSE) THEN "empty"
    ELSE "enabled"

\* Line 231: the IPv4 origin is detected.
Origin4IsAuto(cfg) ==
    \/ DnsCfg(cfg).origin_ipv4.t = "none"
    \/ Lower(Strip(PyToStr(DnsCfg(cfg).origin_ipv4))) = strAuto

\* Line 234: the explicit IPv4 origin.
Origin4Explicit(cfg) == RequireStr(DnsCfg(cfg).origin_ipv4)

\* Lines 237-242: "none", "auto" or "explicit".
Origin6Kind(cfg) ==
    IF DnsCfg(cfg).origin_ipv6.t = "none" THEN "none"
    ELSE IF Lower(Strip(PyToStr(DnsCfg(cfg).origin_ipv6))) = strAuto THEN "auto"
    ELSE "explicit"

\* Line 242: str(origin_ipv6_cfg or "").strip()
Origin6Explicit(cfg) ==
    IF Truthy(DnsCfg(cfg).origin_ipv6)
    THEN Strip(PyToStr(DnsCfg(cfg).origin_ipv6))
    ELSE << >>

\* Line 243: int(dns_cfg.get("ttl") or 1)
TtlOf(cfg) ==
    IF Truthy(DnsCfg(cfg).ttl) THEN PyToInt(DnsCfg(cfg).ttl)
    ELSE [ok |-> TRUE, v |-> 1]

\* Lines 246-251: edge is a mapping and edge.sites a non-empty list.
SitesOk(cfg) ==
    /\ cfg.edge.t = "map"
    /\ cfg.edge.sites.t = "list"
    /\ cfg.edge.sites.v # << >>

\* Every entry of every tls_domains list, in order, duplicates kept.
RECURSIVE TlsEntries(_)
TlsEntries(sites) ==
    IF sites = << >> THEN << >>
    ELSE LET s == Head(sites)
             here == IF s.t = "map" /\ s.tls_domains.t = "list"
                     THEN [i \in 1..Len(s.tls_domains.v) |->
                             Strip(PyToStr(s.tls_domains.v[i]))]
                     ELSE << >>
         IN  here \o TlsEntries(Tail(sites))

KeepFqdn(ds) == ds # << >> /\ IsFqdn(ds)

\* Lines 253-263: fqdn_set
FqdnSet(sites) == {ds \in Range(TlsEntries(sites)) : KeepFqdn(ds)}

\* sorted() of a set of strings.
RECURSIVE SortedStrs(_)
SortedStrs(S) ==
    IF S = {} THEN << >>
    ELSE LET m == CHOOSE x \in S : \A y \in S \ {x} : StrLess(x, y)
         IN  <<m>> \o SortedStrs(S \ {m})

\* sorted() of a list of strings (stable insertion sort).
RECURSIVE SortedList(_)
SortedList(l) ==
    IF l = << >> THEN << >>
    ELSE LET rest == SortedList(SubSeq(l, 1, Len(l) - 1))
             x == l[Len(l)]
             k == Cardinality({i \in 1..Len(rest) : ~StrLess(x, rest[i])})
         IN  SubSeq(rest, 1, k) \o <<x>> \o SubSeq(rest, k + 1, Len(rest))

\* The names iterated without the set: every kept entry, duplicates included.
FqdnsNoSet(sites) == SortedList(SelectSeq(TlsEntries(sites), KeepFqdn))

\* Line 269: sorted(fqdn_set)
Fqdns(sites) == SortedStrs(FqdnSet(sites))

DesiredRecord(zone_name, type, name, content, ttl, proxied) ==
    [zone_name |-> zone_name, type |-> type, name |-> name,
     content |-> content, ttl |-> ttl, proxied |-> proxied]

\* Lines 268-292: the records of a sorted list of names.
RECURSIVE DesiredOf(_, _, _, _, _)
DesiredOf(fqdns, origin_ipv4, origin_ipv6, ttl, proxy_enabled) ==
    IF fqdns = << >> THEN << >>
    ELSE <<DesiredRecord(<< >>, typeA, Head(fqdns), origin_ipv4, ttl,
                         proxy_enabled)>>
         \o (IF origin_ipv6 # << >>
             THEN <<DesiredRecord(<< >>, typeAAAA, Head(fqdns), origin_ipv6,
                                  ttl, proxy_enabled)>>
             ELSE << >>)
         \o DesiredOf(Tail(fqdns), origin_ipv4, origin_ipv6, ttl,
                      proxy_enabled)

\* Lines 243-292: the rest of build_desired_records once both origins are
\* resolved; [ok |-> FALSE] stands for the ValueError.
BuildTail(cfg, origin_ipv4, origin_ipv6) ==
    IF ~TtlOf(cfg).ok \/ ~SitesOk(cfg) THEN [ok |-> FALSE]
    ELSE [ok |-> TRUE,
          v |-> DesiredOf(Fqdns(cfg.edge.sites.v), origin_ipv4, origin_ipv6,
                          TtlOf(cfg).v,
                          AsBool(cfg.cloudflare.proxy_enabled, TRUE))]


(***************************************************************************)
(* Provider client.  The provider's DNS records are an ordered list of     *)
(* JSON objects [zid, type, name, id, content, ttl, proxied]; the zone     *)
(* listing is a list of pages.                                             *)
(***************************************************************************)
\* A call of CloudflareApi._request, as logged by the model.
ApiCall(op, zid, type, name, arg) ==
    [op |-> op, zid |-> zid, type |-> type, name |-> name, arg |-> arg]

IsMutation(c) == c.op \in {"create", "update"}

\* Line 160: the query of a zone page.
PerPage == 50

PageQuery(p) == [page |-> p, per_page |-> PerPage]

\* The provider's answer to GET /zones?page=p.
PageResponse(pages, p) ==
    IF p <= Len(pages) THEN pages[p]
    ELSE [result |-> [t |-> "list", v |-> << >>],
          info |-> [t |-> "map", total_pages |-> PyInt(Len(pages))]]

\* Lines 162-164: the dicts of the batch.
IsMap(z) == z.t = "map"

BatchOf(res) ==
    IF res.result.t = "list" THEN SelectSeq(res.result.v, IsMap) ELSE << >>

\* A key the JSON object does not carry (dict.get falls to its default).
PyAbsent == [t |-> "absent"]

\* A listing that stops after every page.
LastPageAlways(res, page) == [ok |-> TRUE, v |-> TRUE]

\* Lines 165-171: v is TRUE when list_zones stops after this page;
\* [ok |-> FALSE] stands for the TypeError / ValueError of int().
LastPage(res, page) ==
    IF res.info.t # "map" THEN [ok |-> TRUE, v |-> TRUE]
    ELSE LET total_pages ==
                 PyToInt(IF res.info.total_pages.t = "absent" THEN PyInt(page)
                         ELSE res.info.total_pages)
         IN  IF ~total_pages.ok THEN [ok |-> FALSE]
             ELSE [ok |-> TRUE, v |-> page >= total_pages.v]

\* find_dns_record: the first record of the zone with the type and name.
FindDnsRecord(prov, zid, rtype, name) ==
    LET Hit(x) == x.zid = zid /\ x.type = rtype /\ x.name = name
        result == SelectSeq(prov, Hit)
    IN  IF result # << >> THEN result[1] ELSE PyNone

DigitStr == <<"0", "1", "2", "3", "4", "5", "6", "7", "8", "9">>

\* The identifier of the n-th record the provider already holds.
RecordId(n) == PyStr(<<"r", DigitStr[n + 1]>>)

\* The identifier the provider gives to a record it creates.
FreshId(prov) == PyStr(<<"n", DigitStr[Len(prov) + 1]>>)

\* The provider after a successful POST: the record is stored as sent.
CreateDnsRecord(prov, zid, r) ==
    Append(prov, [t |-> "map", zid |-> zid, type |-> r.type, name |-> r.name,
                  id |-> FreshId(prov), content |-> PyStr(r.content),
                  ttl |-> PyInt(r.ttl), proxied |-> PyBool(r.proxied)])

\* The provider after a successful PUT: the record is stored as sent.
UpdateDnsRecord(prov, zid, record_id, r) ==
    [i \in 1..Len(prov) |->
        IF prov[i].zid = zid /\ prov[i].id = record_id
        THEN [prov[i] EXCEPT !.type = r.type, !.name = r.name,
                             !.content = PyStr(r.content),
                             !.ttl = PyInt(r.ttl),
                             !.proxied = PyBool(r.proxied)]
        ELSE prov[i]]

(***************************************************************************)
(* Reconciler: the pure parts of main().                                   *)
(***************************************************************************)
\* Lines 326-331: the zones whose name and id are strings.
UsableZone(z) == z.name.t = "str" /\ z.id.t = "str"

ZoneNames(zs) ==
    LET us == SelectSeq(zs, UsableZone)
    IN  [i \in 1..Len(us) |-> us[i].name.v]

\* zone_name_to_id[name]: the last usable zone of the name wins.
ZoneNameToId(zs, name) ==
    LET us == SelectSeq(zs, UsableZone)
        i == CHOOSE k \in 1..Len(us) :
                 /\ us[k].name.v = name
                 /\ \A j \in (k + 1)..Len(us) : us[j].name.v # name
    IN  us[i].id.v

\* Line 336: the zone of a desired record.
ZoneOf(r, zone_names) ==
    PickZoneForFqdn(LStrip(r.name, {"*", "."}), zone_names)

\* Line 337: not zone
NoZone(zone) == zone.t = "none" \/ zone.v = << >>

\* A fill that skips the records without a zone instead of aborting.
FillZonesSkip(des, zone_names) ==
    LET Resolves(r) == ~NoZone(ZoneOf(r, zone_names))
        kept == SelectSeq(des, Resolves)
    IN  [ok |-> TRUE,
         v |-> [i \in 1..Len(kept) |->
                  [kept[i] EXCEPT !.zone_name = ZoneOf(kept[i], zone_names).v]]]

\* Lines 334-348: [ok |-> FALSE] stands for the SystemExit.
FillZones(des, zone_names) ==
    IF \E i \in 1..Len(des) : NoZone(ZoneOf(des[i], zone_names))
    THEN [ok |-> FALSE]
    ELSE [ok |-> TRUE,
          v |-> [i \in 1..Len(des) |->
                   [des[i] EXCEPT !.zone_name = ZoneOf(des[i], zone_names).v]]]

KeyOf(r) == <<r.zone_name, r.type, r.name>>

\* Lines 351-354: dict insertion keeps the first position and the last value.
RECURSIVE UniqInto(_, _)
UniqInto(acc, rest) ==
    IF rest = << >> THEN acc
    ELSE LET r == Head(rest)
             at == {i \in 1..Len(acc) : KeyOf(acc[i]) = KeyOf(r)}
         IN  IF at = {} THEN UniqInto(Append(acc, r), Tail(rest))
             ELSE UniqInto([acc EXCEPT ![CHOOSE i \in at : TRUE] = r],
                           Tail(rest))

Uniq(filled) == UniqInto(<< >>, filled)

\* Tuple order on (zone_name, type, name).
KeyLess(a, b) ==
    \/ StrLess(a.zone_name, b.zone_name)
    \/ /\ a.zone_name = b.zone_name
       /\ \/ StrLess(a.type, b.type)
          \/ a.type = b.type /\ StrLess(a.name, b.name)

\* A loop that iterates the records in dict order, without sorting.
UnsortedRecords(l) == l

\* Line 360: sorted(records, key=...), a stable sort.
RECURSIVE SortedRecords(_)
SortedRecords(l) ==
    IF l = << >> THEN << >>
    ELSE LET rest == SortedRecords(SubSeq(l, 1, Len(l) - 1))
             x == l[Len(l)]
             k == Cardinality({i \in 1..Len(rest) : ~KeyLess(x, rest[i])})
         IN  SubSeq(rest, 1, k) \o <<x>> \o SubSeq(rest, k + 1, Len(rest))

\* The comparison that ignores the proxied flag.
NeedsUpdateNoProxied(ex, r) ==
    IF PyToStr(ex.content) # r.content THEN [ok |-> TRUE, v |-> TRUE]
    ELSE IF ~PyToInt(ex.ttl).ok THEN [ok |-> FALSE]
    ELSE [ok |-> TRUE, v |-> PyToInt(ex.ttl).v # r.ttl]

\* The comparison that always asks for an update.
NeedsUpdateAlways(ex, r) == [ok |-> TRUE, v |-> TRUE]

\* Lines 376-384: needs_update, with Python's short-circuit `or`;
\* [ok |-> FALSE] stands for the TypeError of int(None).
NeedsUpdate(ex, r) ==
    IF PyToStr(ex.content) # r.content THEN [ok |-> TRUE, v |-> TRUE]
    ELSE IF ~PyToInt(ex.ttl).ok THEN [ok |-> FALSE]
    ELSE IF PyToInt(ex.ttl).v # r.ttl THEN [ok |-> TRUE, v |-> TRUE]
    ELSE [ok |-> TRUE, v |-> Truthy(ex.proxied) # r.proxied]

\* Line 365: the action a dry run reports.
PlanAction(ex) == IF ex.t = "none" THEN "PLAN create" ELSE "PLAN update"

\* Line 391: the existing record carries a usable id.
HasId(ex) == ex.id.t = "str" /\ ex.id.v # << >>


(***************************************************************************)
(* State of a run of main().                                               *)
(***************************************************************************)
VARIABLES
    cfg,        \* the parsed config.yml
    token,      \* TRUE when an API token is found in the environment/secrets
    replies,    \* replies[v][i]: what endpoint i answers to a probe for IPv<v>
    zonePages,  \* the provider's zone listing, page by page
    provider,   \* the provider's DNS records
    apply,      \* args.apply
    pc,         \* where main() is
    exitCode,   \* -1 while running, 0 returned, 1 aborted
    run,        \* number of the current run
    prev,       \* [apply, ok] of the previous run, or PyNone
    dver,       \* version being detected
    didx,       \* index of the next endpoint to probe
    last_err,   \* index of the endpoint of the last caught exception, 0 if none
    probes,     \* the probe requests sent, in order
    origin4,    \* origin_ipv4
    origin6,    \* origin_ipv6
    desired,    \* the list build_desired_records returns
    page,       \* list_zones: page
    zones,      \* list_zones: zones
    records,    \* the sorted list the loop iterates
    idx,        \* index in records of the record being processed
    existing,   \* the result of find_dns_record for records[idx]
    created,    \* counters
    changed,
    unchanged,
    calls,      \* the provider API calls issued in this run, in order
    out,        \* the lines printed in this run, in order
    provider0,  \* the provider's records when the run started
    pick        \* zone resolver: [fqdn, zone_names, result]

inputs == <<cfg, token, replies, zonePages>>
detectVars == <<dver, didx, last_err, probes>>
buildVars == <<origin4, origin6, desired>>
zoneVars == <<page, zones>>
loopVars == <<records, idx, existing>>
counters == <<created, changed, unchanged>>
runVars == <<run, prev, provider0, apply>>

vars ==
    <<cfg, token, replies, zonePages, provider, apply, pc, exitCode, run,
      prev, dver, didx, last_err, probes, origin4, origin6, desired, page,
      zones, records, idx, existing, created, changed, unchanged, calls, out,
      provider0, pick>>

(***************************************************************************)
(* Sample inputs.                                                          *)
(***************************************************************************)
nWEC == <<"w", ".", "e", ".", "c">>
nWECpadded == <<" ", "w", ".", "e", ".", "c">>
nADEC == <<"a", ".", "d", ".", "e", ".", "c">>
nWild == <<"*", ".", "e", ".", "c">>
nDEC == <<"d", "e", ".", "c">>
nBad == <<"n", " ", "d">>
zEC == <<"e", ".", "c">>
zDEC == <<"d", ".", "e", ".", "c">>
idZ1 == <<"z", "1">>
idZ2 == <<"z", "2">>

Site(tls) == [t |-> "map", tls_domains |-> [t |-> "list", v |-> tls]]

Dns(enabled, o4, o6, ttl) ==
    [t |-> "map", enabled |-> enabled, origin_ipv4 |-> o4,
     origin_ipv6 |-> o6, ttl |-> ttl]

Cfg(dns, proxy, edge) ==
    [cloudflare |-> [t |-> "map", dns |-> dns, proxy_enabled |-> proxy],
     edge |-> edge]

Edge(sites) == [t |-> "map", sites |-> [t |-> "list", v |-> sites]]

sitesBasic ==
    << Site(<<PyStr(nWEC), PyStr(nADEC)>>),
       Site(<<PyStr(nWECpadded), PyStr(nBad), PyInt(1), PyStr(nWild)>>),
       PyOther >>
sitesWild == << Site(<<PyStr(nWild), PyStr(nWEC)>>) >>
sitesMiss == << Site(<<PyStr(nADEC), PyStr(nDEC)>>) >>
sitesOne == << Site(<<PyStr(nWEC)>>), Site(<<PyStr(nWEC)>>) >>

strAutoPadded == <<" ", "A", "U", "T", "O", "\n">>

cfgBasic ==
    Cfg(Dns(PyBool(TRUE), PyStr(txtPublic4), PyNone, PyNone), PyNone,
        Edge(sitesBasic))
cfgWild ==
    Cfg(Dns(PyStr(<<"Y", "e", "s">>), PyNone, PyNone, PyInt(0)), PyNone,
        Edge(sitesWild))
cfgMiss ==
    Cfg(Dns(PyBool(TRUE), PyStr(txtPublic4), PyNone, PyNone), PyNone,
        Edge(sitesMiss))
cfgV6 ==
    Cfg(Dns(PyInt(1), PyStr(strAutoPadded), PyStr(strAuto), PyNone),
        PyBool(TRUE), Edge(sitesOne))

Body(b) == [kind |-> "body", body |-> b]
TransportError == [kind |-> "error"]

repliesGood ==
    [v \in {4, 6} |->
        IF v = 4
        THEN <<TransportError, Body(txtPrivate4), Body(txtPublic4 \o <<"\n">>)>>
        ELSE <<Body(txtPublic4), Body(txtPublic6Upper)>>]
repliesNo6 ==
    [v \in {4, 6} |->
        IF v = 4
        THEN <<Body(txtPublic4), TransportError, TransportError>>
        ELSE <<Body(txtGarbage), Body(txtLocal6)>>]
repliesNo4 ==
    [v \in {4, 6} |->
        IF v = 4
        THEN <<Body(txtPublic6), Body(txtGarbage), Body(txtPrivate4)>>
        ELSE <<Body(txtPublic6), TransportError>>]

Zone(name, id) == [t |-> "map", name |-> name, id |-> id]
ZonePage(zs, info) == [result |-> [t |-> "list", v |-> zs], info |-> info]
PageInfo(total) == [t |-> "map", total_pages |-> total]

zpTwo ==
    << ZonePage(<<Zone(PyStr(zEC), PyStr(idZ1))>>, PageInfo(PyInt(2))),
       ZonePage(<<Zone(PyStr(zDEC), PyStr(idZ2))>>, PageInfo(PyInt(2))) >>
zpOne ==
    << ZonePage(<<Zone(PyStr(zDEC), PyStr(idZ2)), PyOther,
                  Zone(PyStr(zEC), PyStr(idZ1))>>, PyNone) >>
zpOnlyEC ==
    << ZonePage(<<Zone(PyStr(zEC), PyStr(idZ1)), Zone(PyStr(zDEC), PyNone)>>,
                PageInfo(PyAbsent)) >>

Live(zid, type, name, id, content, ttl, proxied) ==
    [t |-> "map", zid |-> zid, type |-> type, name |-> name, id |-> id,
     content |-> content, ttl |-> ttl, proxied |-> proxied]

\* What the provider may hold for the A record of w.e.c in zone z1; the
\* desired record is (1.1.1.1, 1, true).
LiveW(id, content, ttl, proxied) ==
    Live(idZ1, typeA, nWEC, id, content, ttl, proxied)

ChoicesW ==
    { << >>,
      <<LiveW(RecordId(1), PyStr(txtPublic4), PyInt(1), PyBool(TRUE))>>,
      <<LiveW(RecordId(1), PyStr(txtPrivate4), PyInt(1), PyBool(TRUE))>>,
      <<LiveW(RecordId(1), PyStr(txtPublic4), PyInt(3), PyBool(TRUE))>>,
      <<LiveW(RecordId(1), PyStr(txtPublic4), PyInt(1), PyBool(FALSE))>>,
      <<LiveW(PyNone, PyStr(txtPrivate4), PyInt(1), PyBool(TRUE))>>,
      <<LiveW(PyStr(<< >>), PyStr(txtPublic4), PyInt(1), PyBool(TRUE))>>,
      <<LiveW(RecordId(1), PyStr(txtPublic4), PyNone, PyBool(TRUE))>>,
      <<LiveW(RecordId(1), PyStr(txtPrivate4), PyNone, PyNone)>>,
      <<LiveW(RecordId(1), PyStr(txtPrivate4), PyInt(1), PyBool(TRUE)),
        LiveW(RecordId(2), PyStr(txtPublic4), PyInt(1), PyBool(TRUE))>> }

ChoicesD ==
    { << >>,
      <<Live(idZ2, typeA, nADEC, RecordId(3), PyStr(txtPublic4), PyInt(1),
             PyBool(TRUE))>>,
      <<Live(idZ1, typeA, nADEC, RecordId(3), PyStr(txtPrivate4), PyInt(1),
             PyBool(TRUE))>> }

ChoicesV ==
    { << >>,
      <<Live(idZ1, typeAAAA, nWEC, RecordId(4), PyStr(txtPublic6Upper),
             PyInt(1), PyBool(TRUE))>> }

ProviderSamples ==
    {w \o d \o v : w \in ChoicesW, d \in ChoicesD, v \in ChoicesV}


(***************************************************************************)
(* Initial states.                                                         *)
(***************************************************************************)
NoPick == [fqdn |-> << >>, zone_names |-> << >>, result |-> PyOther]

\* The state at the start of a run, for given inputs.
Start(c, tok, rep, zp, prov, app) ==
    /\ cfg = c /\ token = tok /\ replies = rep /\ zonePages = zp
    /\ provider = prov /\ provider0 = prov /\ apply = app
    /\ pc = "start" /\ exitCode = -1 /\ run = 1 /\ prev = PyNone
    /\ dver = 4 /\ didx = 1 /\ last_err = 0 /\ probes = << >>
    /\ origin4 = << >> /\ origin6 = << >> /\ desired = << >>
    /\ page = 1 /\ zones = << >>
    /\ records = << >> /\ idx = 1 /\ existing = PyNone
    /\ created = 0 /\ changed = 0 /\ unchanged = 0
    /\ calls = << >> /\ out = << >>

\* Runs of the reconciler over enabled configurations.
Init ==
    \E c \in {cfgBasic, cfgWild, cfgMiss, cfgV6},
       rep \in {repliesGood, repliesNo6, repliesNo4},
       zp \in {zpTwo, zpOne, zpOnlyEC},
       prov \in ProviderSamples,
       app \in BOOLEAN, tok \in BOOLEAN :
        /\ (rep # repliesGood => c = cfgV6 /\ prov = << >>)
        /\ (~tok => prov = << >> /\ zp = zpTwo)
        /\ Start(c, tok, rep, zp, prov, app)
        /\ pick = NoPick

(***************************************************************************)
(* The steps of main().                                                    *)
(***************************************************************************)
Abort == pc' = "failed" /\ exitCode' = 1

Return0 == pc' = "done" /\ exitCode' = 0

\* A printed line that is about a record.
Line(state, r) == [state |-> state, key |-> KeyOf(r)]

\* A printed line that is about no record.
Notice(text) == [state |-> text, key |-> << >>]

\* Lines 302-303 and 212-234: load the configuration and enter
\* build_desired_records up to the IPv4 origin.
BuildStart ==
    /\ pc = "start"
    /\ CASE BuildHead(cfg) = "raise" ->
              Abort /\ UNCHANGED <<detectVars, buildVars, out>>
         [] BuildHead(cfg) = "empty" ->
              \* line 219 or 225, then lines 304-306
              /\ Return0
              /\ desired' = << >>
              /\ out' = Append(out, Notice("nothing to do"))
              /\ UNCHANGED <<detectVars, origin4, origin6>>
         [] OTHER ->
              IF Origin4IsAuto(cfg)
              THEN /\ pc' = "detect4"
                   /\ dver' = 4 /\ didx' = 1 /\ last_err' = 0
                   /\ UNCHANGED <<exitCode, probes, buildVars, out>>
              ELSE IF Origin4Explicit(cfg).ok
              THEN /\ pc' = "origin6"
                   /\ origin4' = Origin4Explicit(cfg).v
                   /\ UNCHANGED <<exitCode, detectVars, origin6, desired, out>>
              ELSE Abort /\ UNCHANGED <<detectVars, buildVars, out>>
    /\ UNCHANGED <<inputs, provider, runVars, zoneVars, loopVars, counters,
                   calls, pick>>

\* Lines 51-67: one iteration of the loop of _detect_public_ip, and the
\* RuntimeError after the last one.
Probe ==
    /\ pc \in {"detect4", "detect6"}
    /\ didx <= Len(Candidates(dver))
    /\ probes' = Append(probes, [version |-> dver,
                                 url |-> Candidates(dver)[didx]])
    /\ LET o == ProbeOutcome(replies[dver][didx], dver)
       IN  IF o.kind = "return"
           THEN /\ IF dver = 4
                   THEN origin4' = o.v /\ pc' = "origin6" /\ UNCHANGED origin6
                   ELSE origin6' = o.v /\ pc' = "build_tail"
                        /\ UNCHANGED origin4
                /\ UNCHANGED <<exitCode, didx, last_err>>
           ELSE /\ last_err' = IF o.kind = "raise" THEN didx ELSE last_err
                /\ didx' = didx + 1
                /\ IF didx = Len(Candidates(dver))
                   THEN Abort
                   ELSE UNCHANGED <<pc, exitCode>>
                /\ UNCHANGED <<origin4, origin6>>
    /\ UNCHANGED <<inputs, provider, runVars, dver, desired, zoneVars,
                   loopVars, counters, calls, out, pick>>

\* Lines 236-242: the IPv6 origin.
Origin6 ==
    /\ pc = "origin6"
    /\ CASE Origin6Kind(cfg) = "none" ->
              /\ origin6' = << >> /\ pc' = "build_tail"
              /\ UNCHANGED detectVars
         [] Origin6Kind(cfg) = "auto" ->
              /\ pc' = "detect6"
              /\ dver' = 6 /\ didx' = 1 /\ last_err' = 0
              /\ UNCHANGED <<origin6, probes>>
         [] OTHER ->
              /\ origin6' = Origin6Explicit(cfg) /\ pc' = "build_tail"
              /\ UNCHANGED detectVars
    /\ UNCHANGED <<inputs, provider, runVars, exitCode, origin4, desired,
                   zoneVars, loopVars, counters, calls, out, pick>>

\* Lines 243-292 and 304-306: the rest of build_desired_records.
BuildFinish ==
    /\ pc = "build_tail"
    /\ LET b == BuildTail(cfg, origin4, origin6)
       IN  IF ~b.ok THEN Abort /\ UNCHANGED <<desired, out>>
           ELSE /\ desired' = b.v
                /\ IF b.v = << >>
                   THEN Return0 /\ out' = Append(out, Notice("nothing to do"))
                   ELSE pc' = "token" /\ UNCHANGED <<exitCode, out>>
    /\ UNCHANGED <<inputs, provider, runVars, detectVars, origin4, origin6,
                   zoneVars, loopVars, counters, calls, pick>>

\* Lines 308-322: the API token.
Token ==
    /\ pc = "token"
    /\ IF token
       THEN pc' = "list_zones" /\ page' = 1 /\ zones' = << >>
            /\ UNCHANGED exitCode
       ELSE Abort /\ UNCHANGED zoneVars
    /\ UNCHANGED <<inputs, provider, runVars, detectVars, buildVars, loopVars,
                   counters, calls, out, pick>>

\* Lines 159-171: one iteration of the loop of list_zones; the request may
\* fail (_request raises).
ListZonesPage ==
    /\ pc = "list_zones"
    /\ calls' = Append(calls, ApiCall("list_zones", << >>, << >>, << >>,
                                      PageQuery(page)))
    /\ \E ok \in BOOLEAN :
        IF ~ok THEN Abort /\ UNCHANGED zoneVars
        ELSE LET res == PageResponse(zonePages, page)
                 last == LastPage(res, page)
             IN  IF ~last.ok THEN Abort /\ UNCHANGED zoneVars
                 ELSE /\ zones' = zones \o BatchOf(res)
                      /\ IF last.v
                         THEN pc' = "fill" /\ UNCHANGED page
                         ELSE page' = page + 1 /\ UNCHANGED pc
                      /\ UNCHANGED exitCode
    /\ UNCHANGED <<inputs, provider, runVars, detectVars, buildVars, loopVars,
                   counters, out, pick>>

\* Lines 324-358: resolve the zones, de-duplicate, sort.
Fill ==
    /\ pc = "fill"
    /\ LET f == FillZones(desired, ZoneNames(zones))
       IN  IF ~f.ok THEN Abort /\ UNCHANGED <<records, idx>>
           ELSE /\ records' = SortedRecords(Uniq(f.v))
                /\ idx' = 1
                /\ pc' = "find"
                /\ UNCHANGED exitCode
    /\ created' = 0 /\ changed' = 0 /\ unchanged' = 0
    /\ UNCHANGED <<inputs, provider, runVars, detectVars, buildVars, zoneVars,
                   existing, calls, out, pick>>

\* The record of the current iteration and its zone id (line 361).
Cur == records[idx]
CurZid == ZoneNameToId(zones, Cur.zone_name)

\* Line 362: the lookup; the request may fail.
Find ==
    /\ pc = "find"
    /\ idx <= Len(records)
    /\ calls' = Append(calls, ApiCall("find", CurZid, Cur.type, Cur.name, 0))
    /\ \E ok \in BOOLEAN :
        IF ~ok THEN Abort /\ UNCHANGED existing
        ELSE /\ existing' = FindDnsRecord(provider, CurZid, Cur.type, Cur.name)
             /\ pc' = "act"
             /\ UNCHANGED exitCode
    /\ UNCHANGED <<inputs, provider, runVars, detectVars, buildVars, zoneVars,
                   records, idx, counters, out, pick>>

\* A loop that never takes the dry-run branch.
ApplyingAlways == TRUE

\* Line 364: the loop goes past the dry-run branch.
Applying == apply

NextRecord == idx' = idx + 1 /\ pc' = "find" /\ UNCHANGED exitCode

\* Lines 364-367: dry run.
Plan ==
    /\ pc = "act" /\ ~Applying
    /\ out' = Append(out, Line(PlanAction(existing), Cur))
    /\ NextRecord
    /\ UNCHANGED <<inputs, provider, runVars, detectVars, buildVars, zoneVars,
                   records, existing, counters, calls, pick>>

\* Lines 369-374: create; the request may fail.
Create ==
    /\ pc = "act" /\ Applying /\ existing.t = "none"
    /\ calls' = Append(calls, ApiCall("create", CurZid, Cur.type, Cur.name, 0))
    /\ \E ok \in BOOLEAN :
        IF ~ok THEN Abort /\ UNCHANGED <<provider, idx, counters, out>>
        ELSE /\ provider' = CreateDnsRecord(provider, CurZid, Cur)
             /\ created' = created + 1
             /\ changed' = changed + 1
             /\ out' = Append(out, Line("CREATED", Cur))
             /\ NextRecord
             /\ UNCHANGED unchanged
    /\ UNCHANGED <<inputs, runVars, detectVars, buildVars, zoneVars, records,
                   existing, pick>>

\* Lines 376-388: the comparison raises, or finds nothing to change.
Keep ==
    /\ pc = "act" /\ Applying /\ existing.t # "none"
    /\ LET n == NeedsUpdate(existing, Cur)
       IN  /\ IF n.ok THEN ~n.v ELSE TRUE
           /\ IF ~n.ok THEN Abort /\ UNCHANGED <<idx, unchanged, out>>
              ELSE /\ unchanged' = unchanged + 1
                   /\ out' = Append(out, Line("OK", Cur))
                   /\ NextRecord
    /\ UNCHANGED <<inputs, provider, runVars, detectVars, buildVars, zoneVars,
                   records, existing, created, changed, calls, pick>>

\* Lines 390-396: update; the record may lack an id, the request may fail.
Update ==
    /\ pc = "act" /\ Applying /\ existing.t # "none"
    /\ NeedsUpdate(existing, Cur).ok /\ NeedsUpdate(existing, Cur).v
    /\ IF ~HasId(existing)
       THEN Abort /\ UNCHANGED <<provider, idx, changed, calls, out>>
       ELSE /\ calls' = Append(calls, ApiCall("update", CurZid, Cur.type,
                                              Cur.name, existing.id.v))
            /\ \E ok \in BOOLEAN :
                IF ~ok THEN Abort /\ UNCHANGED <<provider, idx, changed, out>>
                ELSE /\ provider' = UpdateDnsRecord(provider, CurZid,
                                                    existing.id, Cur)
                     /\ changed' = changed + 1
                     /\ out' = Append(out, Line("UPDATED", Cur))
                     /\ NextRecord
    /\ UNCHANGED <<inputs, runVars, detectVars, buildVars, zoneVars, records,
                   existing, created, unchanged, pick>>

\* Lines 398-403: the summary.
Finish ==
    /\ pc = "find"
    /\ idx > Len(records)
    /\ out' = Append(out, Notice(IF apply THEN "Done" ELSE "Done planned"))
    /\ Return0
    /\ UNCHANGED <<inputs, provider, runVars, detectVars, buildVars, zoneVars,
                   loopVars, counters, calls, pick>>

\* The operator runs the script again, in either mode, after a run that
\* returned 0, with the configuration, environment and zones unchanged.
NextRun ==
    /\ pc = "done"
    /\ run < MaxRuns
    /\ run' = run + 1
    /\ prev' = [t |-> "run", apply |-> apply, created |-> created,
                changed |-> changed, unchanged |-> unchanged]
    /\ provider0' = provider
    /\ apply' \in BOOLEAN
    /\ pc' = "start" /\ exitCode' = -1
    /\ dver' = 4 /\ didx' = 1 /\ last_err' = 0 /\ probes' = << >>
    /\ origin4' = << >> /\ origin6' = << >> /\ desired' = << >>
    /\ page' = 1 /\ zones' = << >>
    /\ records' = << >> /\ idx' = 1 /\ existing' = PyNone
    /\ created' = 0 /\ changed' = 0 /\ unchanged' = 0
    /\ calls' = << >> /\ out' = << >>
    /\ UNCHANGED <<inputs, provider, pick>>

Next ==
    \/ BuildStart
    \/ Probe
    \/ Origin6
    \/ BuildFinish
    \/ Token
    \/ ListZonesPage
    \/ Fill
    \/ Find
    \/ Plan
    \/ Create
    \/ Keep
    \/ Update
    \/ Finish
    \/ NextRun

Spec == Init /\ [][Next]_vars


(***************************************************************************)
(* Runs over the shapes a configuration can take.                          *)
(***************************************************************************)
strOff == <<"o", "f", "f">>
strYesPadded == <<" ", "Y", "e", "s">>
strBlank == <<" ", " ">>

EnabledSamples ==
    {PyNone, PyBool(FALSE), PyBool(TRUE), PyStr(strOff), PyStr(strYesPadded),
     PyInt(0), PyOther}

Origin4Samples ==
    {PyNone, PyStr(strAutoPadded), PyStr(txtPublic4), PyStr(txtPrivate4),
     PyStr(txtGarbage), PyStr(strBlank), PyInt(1)}

Origin6Samples == {PyNone, PyStr(strAuto), PyStr(txtGarbage), PyInt(0)}

TtlSamples == {PyNone, PyInt(3), PyStr(<<"3", "0">>), PyOther}

EdgeSamples ==
    {PyNone, [t |-> "map", sites |-> PyNone], Edge(<< >>),
     Edge(<<Site(<<PyStr(nBad)>>)>>), Edge(sitesOne)}

cfgNoCloudflare == [cloudflare |-> PyNone, edge |-> Edge(sitesOne)]
cfgNoDns == Cfg(PyNone, PyNone, Edge(sitesOne))
cfgDnsNotMapping == Cfg(PyOther, PyNone, Edge(sitesOne))

CfgShapes ==
    {cfgNoCloudflare, cfgNoDns, cfgDnsNotMapping}
    \cup {Cfg(Dns(en, o4, o6, PyNone), PyNone, Edge(sitesOne)) :
            en \in EnabledSamples, o4 \in Origin4Samples,
            o6 \in {PyNone, PyStr(strAuto)}}
    \cup {Cfg(Dns(PyBool(TRUE), PyStr(txtPublic4), o6, ttl), proxy, edge) :
            o6 \in Origin6Samples, ttl \in TtlSamples,
            proxy \in {PyNone, PyBool(FALSE)}, edge \in EdgeSamples}

InitCfg ==
    \E c \in CfgShapes,
       rep \in {repliesGood, repliesNo4},
       prov \in {<< >>,
                 <<LiveW(RecordId(1), PyStr(txtPublic4), PyInt(1),
                         PyBool(TRUE))>>},
       app \in BOOLEAN, tok \in BOOLEAN :
        Start(c, tok, rep, zpTwo, prov, app) /\ pick = NoPick

SpecCfg == InitCfg /\ [][Next]_vars

(***************************************************************************)
(* Public-IP detection over every combination of endpoint replies.         *)
(***************************************************************************)
ReplySamples ==
    {TransportError, Body(txtGarbage), Body(txtPrivate4),
     Body(txtPublic4 \o <<"\n">>), Body(txtPublic6Upper), Body(txtLocal6)}

cfgAuto4 ==
    Cfg(Dns(PyBool(TRUE), PyNone, PyNone, PyNone), PyNone, Edge(sitesOne))

InitDetect ==
    \E c \in {cfgAuto4, cfgV6},
       r4 \in [1..Len(Candidates(4)) -> ReplySamples],
       r6 \in [1..Len(Candidates(6)) -> ReplySamples] :
        /\ (c = cfgAuto4 => r6 = [i \in 1..Len(Candidates(6)) |-> TransportError])
        /\ Start(c, TRUE, [v \in {4, 6} |-> IF v = 4 THEN r4 ELSE r6], zpTwo,
                 << >>, FALSE)
        /\ pick = NoPick

NextDetect == BuildStart \/ Probe \/ Origin6

SpecDetect == InitDetect /\ [][NextDetect]_vars

(***************************************************************************)
(* The zone resolver over every short name and zone list.                  *)
(***************************************************************************)
NameChars == {"a", "b", "."}

ZoneSamples ==
    { <<"b">>, <<"a", ".", "b">>, <<".", "b">>, <<"a", "b">>,
      <<"b", ".", "a">>, << >> }

InitZone ==
    \E f \in StringsUpTo(NameChars, MaxNameLen),
       zs \in SeqsUpTo(ZoneSamples, MaxZones) :
        /\ Start(cfgBasic, TRUE, repliesGood, zpTwo, << >>, FALSE)
        /\ pick = [fqdn |-> f, zone_names |-> zs, result |-> PyOther]

\* A call of _pick_zone_for_fqdn.
PickZone ==
    /\ pick.result = PyOther
    /\ pick' = [pick EXCEPT
                  !.result = PickZoneForFqdn(pick.fqdn, pick.zone_names)]
    /\ UNCHANGED <<inputs, provider, runVars, pc, exitCode, detectVars,
                   buildVars, zoneVars, loopVars, counters, calls, out>>

NextZone == PickZone

SpecZone == InitZone /\ [][NextZone]_vars


(***************************************************************************)
(* The zone listing over providers of several pages.                       *)
(***************************************************************************)
ResultSamples ==
    { [t |-> "list", v |-> <<Zone(PyStr(zEC), PyStr(idZ1))>>],
      [t |-> "list", v |-> <<Zone(PyStr(zDEC), PyStr(idZ2)), PyOther>>],
      PyOther }

InfoSamples ==
    { PyNone, PageInfo(PyAbsent), PageInfo(PyNone), PageInfo(PyInt(0)),
      PageInfo(PyInt(2)), PageInfo(PyInt(3)), PageInfo(PyStr(<<"2">>)) }

\* Providers of n pages that report total_pages = n on every page.
ConstantPages(n) ==
    {[i \in 1..n |-> [result |-> rs[i], info |-> PageInfo(PyInt(n))]] :
        rs \in [1..n -> ResultSamples]}

\* Providers whose pages report anything.
OddPages(n) ==
    {[i \in 1..n |-> [result |-> rs[i], info |-> is[i]]] :
        rs \in [1..n -> ResultSamples], is \in [1..n -> InfoSamples]}

PageSamples ==
    UNION {ConstantPages(n) : n \in 1..MaxPages}
      \cup UNION {OddPages(n) : n \in 1..MaxOddPages}

InitPages ==
    \E zp \in PageSamples :
        /\ Start(cfgBasic, TRUE, repliesGood, zp, << >>, FALSE)
        /\ pick = NoPick

NextPages ==
    \/ BuildStart
    \/ Origin6
    \/ BuildFinish
    \/ Token
    \/ ListZonesPage
    \/ Fill

SpecPages == InitPages /\ [][NextPages]_vars


(***************************************************************************)
(* Properties.                                                             *)
(***************************************************************************)
\* The calls the current step adds to the log.
NewCalls == SubSeq(calls', Len(calls) + 1, Len(calls'))

\* The live record has the field types the provider documents.
WellTyped(ex) ==
    ex.content.t = "str" /\ ex.ttl.t = "int" /\ ex.proxied.t = "bool"

\* The live record differs from the desired one in content, ttl or proxied.
Differs(ex, r) ==
    \/ ex.content # PyStr(r.content)
    \/ ex.ttl # PyInt(r.ttl)
    \/ ex.proxied # PyBool(r.proxied)

Printed(state) == \E i \in DOMAIN out : out[i].state = state

\* C1: in a run without --apply no create or update call is ever issued,
\* only list_zones and find_dns_record reads, and the provider's records
\* are the ones the run started with.
C1_DryRunIssuesNoMutation ==
    ~apply =>
        /\ \A i \in DOMAIN calls : calls[i].op \in {"list_zones", "find"}
        /\ provider = provider0

\* A dry run that has finished after planning a create and an update.
C1_Witness ==
    /\ ~apply /\ pc = "done"
    /\ Printed("PLAN create") /\ Printed("PLAN update")
    /\ \E i \in DOMAIN calls : calls[i].op = "find"

\* C2: an apply run that follows a successful apply run with the same
\* configuration and zones classifies every record as unchanged: it creates
\* and updates nothing, issues no create or update call, and ends with
\* unchanged equal to the number of records.
C2_SecondApplyIsNoChange ==
    (prev.t = "run" /\ prev.apply /\ apply) =>
        /\ \A i \in DOMAIN calls : ~IsMutation(calls[i])
        /\ created = 0 /\ changed = 0
        /\ ~Printed("CREATED") /\ ~Printed("UPDATED")
        /\ provider = provider0
        /\ (pc = "done" => unchanged = Len(records))

\* A second apply run has finished after a first one that created a record
\* and updated another.
C2_Witness ==
    /\ prev.t = "run" /\ prev.apply /\ apply
    /\ prev.created > 0 /\ prev.changed > prev.created
    /\ pc = "done" /\ Len(records) >= 2 /\ unchanged = Len(records)

\* C3 as amended: in apply mode the step taken for a record depends on the
\* lookup result only: one create call if there is no live record; for a
\* live record with a string content, integer ttl and boolean proxied, one
\* update call if it differs in one of them and carries a non-empty string
\* id, an abort without any mutating call if it differs and carries no such
\* id, and no call and no change of the provider if all three are equal.
C3_ActionByLookup ==
    [][(pc = "act" /\ apply) =>
         IF existing.t = "none"
         THEN NewCalls = <<ApiCall("create", CurZid, Cur.type, Cur.name, 0)>>
         ELSE IF ~WellTyped(existing) THEN TRUE
         ELSE IF Differs(existing, Cur)
         THEN IF HasId(existing)
              THEN NewCalls = <<ApiCall("update", CurZid, Cur.type, Cur.name,
                                        existing.id.v)>>
              ELSE NewCalls = << >> /\ pc' = "failed" /\ provider' = provider
         ELSE NewCalls = << >> /\ provider' = provider /\ pc' = "find"
                /\ unchanged' = unchanged + 1]_vars

\* An apply run has created a record, updated another and kept a third.
C3_Witness ==
    /\ apply
    /\ Printed("CREATED") /\ Printed("UPDATED") /\ Printed("OK")

\* C3 as stated: every live record that differs gets exactly one update call.
C3_Original ==
    [][(pc = "act" /\ apply) =>
         IF existing.t = "none"
         THEN NewCalls = <<ApiCall("create", CurZid, Cur.type, Cur.name, 0)>>
         ELSE IF ~WellTyped(existing) THEN TRUE
         ELSE IF Differs(existing, Cur)
         THEN Len(NewCalls) = 1 /\ NewCalls[1].op = "update"
         ELSE NewCalls = << >>]_vars

\* The state a dry run is to report for a lookup result.
PlanState(ex, r) ==
    IF ex.t = "none" THEN "PLAN create"
    ELSE IF Differs(ex, r) THEN "PLAN update"
    ELSE "PLAN ok"

\* C4: a dry run reports, for each record, the plan equivalent of what an
\* apply run would do for the same lookup result: PLAN create without a live
\* record, PLAN update for one that differs, PLAN ok for one that is equal.
C4_PlanMirrorsApply ==
    [][(pc = "act" /\ ~apply /\ (existing.t # "none" => WellTyped(existing)))
         => out' = Append(out, Line(PlanState(existing, Cur), Cur))]_vars


\* The zone the resolver gives to a desired record among the zones loaded.
Resolved(r) == ZoneOf(r, ZoneNames(zones))

\* Some desired record matches no loaded zone.
HasMiss == \E i \in DOMAIN desired : NoZone(Resolved(desired[i]))

\* C6: when a desired record's name matches no zone of the loaded list, the
\* run never enters the reconciliation loop in either mode: no find, create
\* or update call is issued for any record, the provider is untouched, and
\* the fill step ends the run with a non-zero exit.
C6_MissAbortsBeforeAnyRecordCall ==
    /\ [](HasMiss =>
            /\ pc \notin {"find", "act", "done"}
            /\ \A i \in DOMAIN calls : calls[i].op = "list_zones"
            /\ provider = provider0)
    /\ [][(pc = "fill" /\ HasMiss) => (pc' = "failed" /\ exitCode' = 1)]_vars

\* An apply run has aborted after loading both zones: one desired record
\* resolves, another matches no zone.
C6_Witness ==
    /\ apply /\ pc = "failed" /\ exitCode = 1
    /\ Len(zones) = 2 /\ Len(calls) = 2
    /\ HasMiss
    /\ \E i \in DOMAIN desired : ~NoZone(Resolved(desired[i]))

\* The calls of the given kinds issued for a record of the loop.
CallsFor(r, ops) ==
    {i \in DOMAIN calls :
        /\ calls[i].op \in ops
        /\ calls[i].zid = ZoneNameToId(zones, r.zone_name)
        /\ calls[i].type = r.type
        /\ calls[i].name = r.name}

\* C8: the list build_desired_records returns holds one record per (type,
\* name), the list the loop iterates holds one record per (zone name, type,
\* name), and in a run each of them gets at most one lookup and at most one
\* mutating call, and exactly one lookup once the loop has passed it.
C8_OneRecordPerTriple ==
    /\ \A i, j \in DOMAIN desired :
         i # j => <<desired[i].type, desired[i].name>>
                    # <<desired[j].type, desired[j].name>>
    /\ \A i, j \in DOMAIN records : i # j => KeyOf(records[i]) # KeyOf(records[j])
    /\ \A i \in DOMAIN records :
         /\ Cardinality(CallsFor(records[i], {"find"})) <= 1
         /\ Cardinality(CallsFor(records[i], {"create", "update"})) <= 1
         /\ (i < idx \/ pc = "done") =>
               Cardinality(CallsFor(records[i], {"find"})) = 1

\* An apply run has finished over a configuration whose site entries name
\* the same domain more than once.
C8_Witness ==
    /\ apply /\ pc = "done" /\ Len(records) >= 2
    /\ Len(SelectSeq(TlsEntries(cfg.edge.sites.v), KeepFqdn))
         > Cardinality(FqdnSet(cfg.edge.sites.v))
    /\ \E i \in DOMAIN calls : IsMutation(calls[i])

\* The DNS feature is off: cloudflare is a mapping and cloudflare.dns is
\* missing, or a mapping whose enabled is unset or false.
FeatureOff(c) ==
    /\ c.cloudflare.t = "map"
    /\ \/ c.cloudflare.dns.t = "none"
       \/ /\ c.cloudflare.dns.t = "map"
          /\ c.cloudflare.dns.enabled \in {PyNone, PyBool(FALSE)}

\* cloudflare.dns is missing, or its enabled is unset or false.
FeatureAbsentOrOff(c) ==
    \/ c.cloudflare.t # "map"
    \/ FeatureOff(c)

\* C7 as amended: for every configuration whose cloudflare section is a
\* mapping and whose cloudflare.dns is missing, or is a mapping with enabled
\* unset or false, build_desired_records returns the empty list and the run
\* returns 0 at once: no public-IP probe, no token failure, no provider call.
C7_DisabledIsNoOp ==
    /\ [](FeatureOff(cfg) =>
            /\ pc \in {"start", "done"}
            /\ probes = << >> /\ calls = << >> /\ provider = provider0
            /\ desired = << >>
            /\ (pc = "done" => exitCode = 0))
    /\ [][(FeatureOff(cfg) /\ pc = "start") =>
            (pc' = "done" /\ exitCode' = 0)]_vars

\* A run without any API token has returned 0 over a configuration whose
\* dns mapping leaves enabled unset and asks for a detected origin.
C7_Witness ==
    /\ FeatureOff(cfg) /\ pc = "done" /\ exitCode = 0 /\ ~token
    /\ cfg.cloudflare.dns.t = "map"
    /\ cfg.cloudflare.dns.enabled = PyNone
    /\ cfg.cloudflare.dns.origin_ipv4 = PyNone

\* C7 as stated: no configuration with the feature absent or off fails.
C7_Original == FeatureAbsentOrOff(cfg) => pc # "failed"

\* C10: whenever build_desired_records succeeds, the content of every A
\* record is a valid global-scope IPv4 address, and no record the run stores
\* at the provider carries another content.
C10_OriginIsGlobalIPv4 ==
    /\ \A i \in DOMAIN desired :
         desired[i].type = typeA => IsGlobalIp(desired[i].content, 4)
    /\ \A i \in DOMAIN provider :
         (provider[i].type = typeA /\ provider[i] \notin Range(provider0))
            => IsGlobalIp(provider[i].content.v, 4)

\* The domain is the zone, or ends with "." followed by the zone.
AtLabelBoundary(fqdn, z) ==
    \/ fqdn = z
    \/ \E k \in 1..Len(fqdn) :
         fqdn[k] = "." /\ SubSeq(fqdn, k + 1, Len(fqdn)) = z

\* C5: _pick_zone_for_fqdn returns the longest zone name that the domain
\* equals or ends with after a ".", and None exactly when no zone is one.
C5_LongestSuffixMatch ==
    pick.result.t # "other" =>
        LET M == {z \in Range(pick.zone_names) :
                    AtLabelBoundary(pick.fqdn, z)}
        IN  IF M = {} THEN pick.result = PyNone
            ELSE /\ pick.result.t = "str"
                 /\ pick.result.v \in M
                 /\ \A z \in M : Len(z) <= Len(pick.result.v)

\* The resolver has picked a.b for b.a.b among the zones b and a.b.
C5_Witness ==
    /\ pick.fqdn = <<"b", ".", "a", ".", "b">>
    /\ pick.zone_names = << <<"b">>, <<"a", ".", "b">> >>
    /\ pick.result = PyStr(<<"a", ".", "b">>)

\* The reply parses as a global-scope address of the version.
Acceptable(reply, v) ==
    /\ reply.kind = "body"
    /\ \E e \in IpTable :
         e.txt = Strip(reply.body) /\ e.version = v /\ e.is_global

\* The address of an acceptable reply, as the library writes it.
AddressOf(reply) == (CHOOSE e \in IpTable : e.txt = Strip(reply.body)).canon

\* The endpoints probed so far for a version, in order.
ProbedUrls(v) ==
    LET Of(p) == p.version = v
        ps == SelectSeq(probes, Of)
    IN  [i \in 1..Len(ps) |-> ps[i].url]

ProbeCount(v) == Len(ProbedUrls(v))

\* The detection of the version has returned.
Detected(v) ==
    IF v = 4 THEN pc \in {"origin6", "detect6", "build_tail"}
    ELSE pc = "build_tail" /\ Origin6Kind(cfg) = "auto"

\* The detection of the version has raised.
DetectionFailed(v) == pc = "failed" /\ dver = v

\* C9: for each version the endpoints are requested in the order of the
\* list, each at most once; no endpoint is requested after one whose reply
\* is acceptable; the detection returns the address of the first acceptable
\* reply; and it fails exactly when every endpoint has been requested and
\* none replied acceptably.
C9_FirstAcceptableEndpoint ==
    \A v \in {4, 6} :
        /\ ProbedUrls(v) = SubSeq(Candidates(v), 1, ProbeCount(v))
        /\ \A j \in 1..(ProbeCount(v) - 1) : ~Acceptable(replies[v][j], v)
        /\ Detected(v) =>
              /\ ProbeCount(v) >= 1
              /\ Acceptable(replies[v][ProbeCount(v)], v)
              /\ (IF v = 4 THEN origin4 ELSE origin6)
                   = AddressOf(replies[v][ProbeCount(v)])
        /\ DetectionFailed(v) <=>
              /\ ProbeCount(v) = Len(Candidates(v))
              /\ \A j \in 1..Len(Candidates(v)) : ~Acceptable(replies[v][j], v)

\* Both detections have returned: the IPv4 one from its third endpoint after
\* a private address and another rejected reply, the IPv6 one from its
\* second endpoint.
C9_Witness ==
    /\ pc = "build_tail"
    /\ ProbeCount(4) = 3 /\ ProbeCount(6) = 2
    /\ replies[4][1] = Body(txtPrivate4)
    /\ origin4 = txtPublic4 /\ origin6 = txtPublic6

\* The calls of the loop, in the order they were issued.
IsRecordCall(c) == c.op \in {"find", "create", "update"}

RecordCalls == SelectSeq(calls, IsRecordCall)

IsFind(c) == c.op = "find"

Finds == SelectSeq(calls, IsFind)

\* The call concerns the record.
CallIsFor(c, r) ==
    /\ c.zid = ZoneNameToId(zones, r.zone_name)
    /\ c.type = r.type
    /\ c.name = r.name

\* The provider holds the record as desired: a lookup finds a live record
\* that needs no update.
InDesiredState(r) ==
    LET lr == FindDnsRecord(provider, ZoneNameToId(zones, r.zone_name),
                            r.type, r.name)
    IN  /\ lr.t # "none"
        /\ NeedsUpdate(lr, r).ok
        /\ ~NeedsUpdate(lr, r).v

\* The records of the loop are in strictly increasing (zone name, type,
\* name) order.
RecordsSorted ==
    \A i, j \in DOMAIN records : i < j => KeyLess(records[i], records[j])

\* The lookups issued so far are those of the first records, in order, up to
\* the current one; every mutating call directly follows the lookup of the
\* same record, so a record gets one lookup and at most one mutation and no
\* call is issued for a record after the current one.
OneAtATime ==
    /\ Len(Finds) \in {idx - 1, idx}
    /\ Len(Finds) <= Len(records)
    /\ \A i \in DOMAIN Finds : CallIsFor(Finds[i], records[i])
    /\ \A p \in DOMAIN RecordCalls :
         IsMutation(RecordCalls[p]) =>
            /\ p > 1
            /\ RecordCalls[p - 1].op = "find"
            /\ RecordCalls[p - 1].zid = RecordCalls[p].zid
            /\ RecordCalls[p - 1].type = RecordCalls[p].type
            /\ RecordCalls[p - 1].name = RecordCalls[p].name

\* C11: the loop takes the records one at a time in (zone name, type, name)
\* order, without retry or rollback.  When a run aborts on the k-th record
\* of an apply run, the records before it are in the provider as desired,
\* the last call issued is the one lookup or the one mutation of record k,
\* no call was issued for a later record, the exit code is non-zero, no
\* summary line was printed, and the run takes no further step.
C11_AbortKeepsEarlierMutations ==
    /\ [](RecordsSorted /\ OneAtATime)
    /\ [](apply /\ pc \in {"find", "act", "failed", "done"} =>
            \A i \in DOMAIN records : i < idx => InDesiredState(records[i]))
    /\ [](pc = "failed" =>
            /\ exitCode = 1
            /\ ~Printed("Done") /\ ~Printed("Done planned")
            /\ records # << >> =>
                  /\ idx <= Len(records)
                  /\ RecordCalls # << >> =>
                        CallIsFor(RecordCalls[Len(RecordCalls)], records[idx]))
    /\ [][pc = "failed" => FALSE]_vars

\* An apply run over three records has aborted on a failed update of the
\* second one, after it changed the provider for the first.
C11_Witness ==
    /\ apply /\ pc = "failed" /\ exitCode = 1
    /\ Len(records) = 3 /\ idx = 2
    /\ provider # provider0
    /\ calls[Len(calls)].op = "update"
    /\ CallIsFor(calls[Len(calls)], records[2])
    /\ \A i \in DOMAIN calls : ~CallIsFor(calls[i], records[3])

\* The provider's answer to the request of page p.
Response(p) == PageResponse(zonePages, p)

\* The zone-listing requests issued so far, in order.
IsListCall(c) == c.op = "list_zones"

ListCalls == SelectSeq(calls, IsListCall)

\* The response carries a result_info mapping with a total_pages entry.
ReportsTotal(p) ==
    Response(p).info.t = "map" /\ Response(p).info.total_pages.t # "absent"

\* The total_pages entry of the response is one int() rejects.
RejectsTotal(p) ==
    ReportsTotal(p) /\ ~PyToInt(Response(p).info.total_pages).ok

\* The listing ends with page p: no result_info, no total_pages entry, or a
\* total_pages of at most p.
StopsAt(p) ==
    \/ ~ReportsTotal(p)
    \/ /\ ~RejectsTotal(p)
       /\ PyToInt(Response(p).info.total_pages).v <= p

\* The mapping entries of the results of pages 1..n, in order.
RECURSIVE MappingsOfPages(_)
MappingsOfPages(n) ==
    IF n = 0 THEN << >>
    ELSE MappingsOfPages(n - 1)
           \o (IF Response(n).result.t = "list"
               THEN SelectSeq(Response(n).result.v, IsMap)
               ELSE << >>)

\* Every entry of the results of pages 1..n, in order.
RECURSIVE EntriesOfPages(_)
EntriesOfPages(n) ==
    IF n = 0 THEN << >>
    ELSE EntriesOfPages(n - 1)
           \o (IF Response(n).result.t = "list" THEN Response(n).result.v
               ELSE << >>)

\* The provider reports, on each of its pages, the number of its pages.
ConstantTotal ==
    \A p \in DOMAIN zonePages :
        zonePages[p].info = PageInfo(PyInt(Len(zonePages)))

\* list_zones has returned and the zones are about to be resolved.
ZonesListed == pc = "fill"

\* C12 as amended: list_zones requests pages 1, 2, 3, ... in increasing
\* order with page size 50, each once; it keeps the mapping entries of every
\* page's result, in order, and drops the other entries; it returns after
\* the first page p that carries no result_info mapping, carries no
\* total_pages entry, or reports total_pages <= p, and the run aborts on a
\* total_pages entry that int() rejects; for a provider that reports a
\* constant total_pages N it returns the mapping entries of pages 1..N.  A
\* failed page request aborts the run with a non-zero exit, and the zone
\* resolution only ever starts from the list of a listing that returned.
C12_PagesInOrderUntilTotal ==
    /\ [](\A i \in DOMAIN ListCalls :
             ListCalls[i].arg = [page |-> i, per_page |-> 50])
    /\ [](pc = "list_zones" =>
            /\ Len(ListCalls) = page - 1
            /\ zones = MappingsOfPages(page - 1)
            /\ \A q \in 1..(page - 1) : ~StopsAt(q) /\ ~RejectsTotal(q))
    /\ [](ZonesListed =>
            /\ Len(ListCalls) = page
            /\ StopsAt(page)
            /\ \A q \in 1..(page - 1) : ~StopsAt(q) /\ ~RejectsTotal(q)
            /\ zones = MappingsOfPages(page)
            /\ ConstantTotal => page = Len(zonePages))
    /\ [][pc = "list_zones" =>
            \/ pc' = "failed" /\ exitCode' = 1 /\ zones' = zones
            \/ /\ ~RejectsTotal(page)
               /\ zones' = MappingsOfPages(page)
               /\ pc' = IF StopsAt(page) THEN "fill" ELSE "list_zones"]_vars
    /\ [][pc' = "fill" => pc = "list_zones"]_vars

\* The listing of a provider of three pages has returned after three
\* requests, without the entry of a page that is no mapping.
C12_Witness ==
    /\ ZonesListed /\ ConstantTotal
    /\ Len(zonePages) = 3 /\ page = 3 /\ Len(ListCalls) = 3
    /\ zones = MappingsOfPages(3)
    /\ zones # << >>
    /\ Len(zones) < Len(EntriesOfPages(3))

\* C12 as stated: for a provider that reports a constant total_pages N the
\* listing returns every entry of the results of pages 1..N.
C12_Original ==
    (ZonesListed /\ ConstantTotal) => zones = EntriesOfPages(Len(zonePages))

=============================================================================
